---- MODULE Spec2Model ----
(***************************************************************************)
(* Daylight Brightness Index of WeatherMeteoApp.                           *)
(*                                                                         *)
(* Numbers are fixed point.  Brightness, transmittance and trigonometric   *)
(* values are scaled by 10000 (1.0 is 10000).  Angles are centi-degrees,   *)
(* solar altitude is tenths of a degree, latitude and longitude are        *)
(* centi-degrees.  Instants and wall-clock times are whole minutes counted *)
(* from 2024-01-01T00:00; true solar time is centi-minutes.                *)
(* A JavaScript Date is its time value, NaN when the Date is invalid.      *)
(***************************************************************************)
EXTENDS Integers, Sequences, FiniteSets, TLC

VARIABLES
    hours,      \* the batch handed to the call: a sequence of HourlyInputs
    opts,       \* BrightnessOptions of the call
    deviceTz,   \* UTC offset (minutes) of the runtime the code executes on
    pc,         \* "input" before the call, "done" after it
    callee,     \* which implementation was called
    threw,      \* TRUE when the call ended by throwing Error('Invalid time')
    result,     \* the returned number[] (empty when the call threw)
    solar,      \* per element, what solarAltitudeDeg worked with: day, hour, tst, alt
    arrays,     \* the parallel arrays handed to computeDaylightBrightnessIndexFromArrays
    altA,       \* curve evaluation: first altitude (tenths of a degree)
    altB,       \* curve evaluation: second altitude
    fA,         \* daylightFactorFromAltitude(altA)
    fB,         \* daylightFactorFromAltitude(altB)
    diag,       \* what tryDiagnostics did during the call
    inp,        \* arguments of a function evaluated on its own
    out,        \* what that function returned
    hook,       \* useWeatherData: weatherData, loading, lastCoordsRef and the useCache state
    net,        \* the clock (Date.now(), minutes) and the requests awaiting a response
    trace       \* what the most recent step of the hook did

vars == <<hours, opts, deviceTz, pc, callee, threw, result, solar, arrays, altA, altB, fA, fB,
          diag, inp, out, hook, net, trace>>

batchVars == <<hours, opts, deviceTz, callee, threw, result, solar, arrays, diag>>
curveVars == <<altA, altB, fA, fB>>
probeVars == <<inp, out>>
hookVars == <<hook, net, trace>>

---------------------------------------------------------------------------
(* Bounds of the model *)

MaxLen == 2

---------------------------------------------------------------------------
(* IEEE special values.  NaN is one value outside every range the model    *)
(* computes with; Undefined is a missing optional property.                *)

NaN == 0 - 1000000000
Undefined == 0 - 1000000001

IsNaN(x) == x = NaN

\* JavaScript comparisons: any comparison with NaN is false.
Leq(a, b) == a # NaN /\ b # NaN /\ a <= b
Gt(a, b) == a # NaN /\ b # NaN /\ a > b

\* Math.max / Math.min: NaN if either argument is NaN.
MathMax(a, b) == IF a = NaN \/ b = NaN THEN NaN ELSE IF a >= b THEN a ELSE b
MathMin(a, b) == IF a = NaN \/ b = NaN THEN NaN ELSE IF a <= b THEN a ELSE b

\* Arithmetic that propagates NaN.
Plus(a, b) == IF a = NaN \/ b = NaN THEN NaN ELSE a + b

\* a ?? b
Coalesce(a, b) == IF a = Undefined THEN b ELSE a

\* Number.isFinite
IsFinite(x) == x # NaN /\ x # Undefined

\* JavaScript %: the remainder takes the sign of the dividend.
JsRem(a, n) == IF a >= 0 THEN a % n ELSE 0 - ((0 - a) % n)

\* Math.round on a ratio p / q, q > 0: floor(p/q + 1/2).
RoundDiv(p, q) == (2 * p + q) \div (2 * q)

---------------------------------------------------------------------------
(* Utils: clamp, clamp01, lerp *)

clamp(min, v, max) == MathMax(min, MathMin(max, v))

\* faulty variant of clamp01: the value is passed through unclamped
clamp01_passThrough(v) == v

clamp01(v) == clamp(0, v, 10000)

\* lerp(a, b, t) with t = tn / td
lerp(a, b, tn, td) == a + ((b - a) * clamp01((tn * 10000) \div td)) \div 10000

---------------------------------------------------------------------------
(* Math.sin / Math.cos on centi-degrees, from a one-degree table with      *)
(* linear interpolation.                                                   *)

SinTable == <<
    0, 175, 349, 523, 698, 872, 1045, 1219, 1392, 1564, 1736, 1908, 2079,
    2250, 2419, 2588, 2756, 2924, 3090, 3256, 3420, 3584, 3746, 3907, 4067, 4226,
    4384, 4540, 4695, 4848, 5000, 5150, 5299, 5446, 5592, 5736, 5878, 6018, 6157,
    6293, 6428, 6561, 6691, 6820, 6947, 7071, 7193, 7314, 7431, 7547, 7660, 7771,
    7880, 7986, 8090, 8192, 8290, 8387, 8480, 8572, 8660, 8746, 8829, 8910, 8988,
    9063, 9135, 9205, 9272, 9336, 9397, 9455, 9511, 9563, 9613, 9659, 9703, 9744,
    9781, 9816, 9848, 9877, 9903, 9925, 9945, 9962, 9976, 9986, 9994, 9998, 10000 >>

\* sin of c centi-degrees, 0 <= c <= 9000
SinQ(c) ==
    LET d == c \div 100
        r == c % 100
    IN  IF d >= 90 THEN 10000
        ELSE SinTable[d + 1] + ((SinTable[d + 2] - SinTable[d + 1]) * r) \div 100

MathSin(c) ==
    LET a == c % 36000
    IN  IF a <= 9000 THEN SinQ(a)
        ELSE IF a <= 18000 THEN SinQ(18000 - a)
        ELSE IF a <= 27000 THEN 0 - SinQ(a - 18000)
        ELSE 0 - SinQ(36000 - a)

MathCos(c) == MathSin(c + 9000)

\* toDeg(Math.PI / 2 - Math.acos(x)) in tenths of a degree, x in -10000..10000
AltFromCosZenith(x) ==
    LET ax == IF x < 0 THEN 0 - x ELSE x
        d  == CHOOSE k \in 0..90 :
                 /\ SinTable[k + 1] <= ax
                 /\ (k = 90 \/ SinTable[k + 2] > ax)
        t  == IF d = 90 THEN 900
              ELSE d * 10 + ((ax - SinTable[d + 1]) * 10) \div (SinTable[d + 2] - SinTable[d + 1])
    IN  IF x < 0 THEN 0 - t ELSE t

---------------------------------------------------------------------------
(* The calendar of Date, for the years the model's timestamps lie in.      *)

MinutesPerDay == 24 * 60

\* first day (counted from 2024-01-01 = 0) of the year holding day n
YearStartDay(n) ==
    IF n < 0 - 365 THEN 0 - 730
    ELSE IF n < 0 THEN 0 - 365
    ELSE IF n < 366 THEN 0
    ELSE IF n < 731 THEN 366
    ELSE IF n < 1096 THEN 731
    ELSE 1096

\* Math.floor(m / 1440): the calendar day of minute m
DayOf(m) == m \div MinutesPerDay

\* minute of the day, 0..1439
MinuteOfDay(m) == m % MinutesPerDay

---------------------------------------------------------------------------
(* Timestamps.  A time value is a record [kind, t, off]:                   *)
(*   "naive"   string "YYYY-MM-DDTHH:mm", t its wall-clock minute          *)
(*   "zulu"    the same string with a trailing Z                           *)
(*   "offset"  the same string with a trailing +HH:MM / -HH:MM = off       *)
(*   "garbage" a string no Date can be parsed from                         *)
(*   "epoch"   a number of epoch milliseconds, t its instant               *)
(*   "nan"     the number NaN                                              *)
(*   "date"    a Date object, t its instant                                *)
(*   "baddate" an invalid Date object (time value NaN)                     *)

IsString(t) == t.kind \in {"naive", "zulu", "offset", "garbage"}
IsDateObject(t) == t.kind \in {"date", "baddate"}

\* /[zZ]|[+-]\d{2}:?\d{2}$/.test(t)
hasTz(t) == t.kind \in {"zulu", "offset"}

\* new Date(string): an offset-less date-time is read in the runtime's zone
DateParse(t, devTz) ==
    CASE t.kind = "naive"  -> t.t - devTz
      [] t.kind = "zulu"   -> t.t
      [] t.kind = "offset" -> t.t - t.off
      [] OTHER             -> NaN

\* new Date(value) for a string or a number
NewDate(t, devTz) ==
    CASE IsString(t)      -> DateParse(t, devTz)
      [] t.kind = "epoch" -> t.t
      [] OTHER            -> NaN

\* the time value of a Date object passed in
DateValue(t) == IF t.kind = "date" THEN t.t ELSE NaN

\* coerceDate: [threw, d]
coerceDate(t, devTz) ==
    IF IsDateObject(t) THEN [threw |-> FALSE, d |-> DateValue(t)]
    ELSE LET d == NewDate(t, devTz)
         IN  IF IsNaN(d) THEN [threw |-> TRUE, d |-> NaN]
             ELSE [threw |-> FALSE, d |-> d]

\* minutesToTzOffset: the text "+HH:MM" as its sign and its two fields
minutesToTzOffset(mins) ==
    LET abs == IF mins >= 0 THEN mins ELSE 0 - mins
    IN  [sign |-> IF mins >= 0 THEN 1 ELSE 0 - 1,
         hh   |-> abs \div 60,
         mm   |-> abs % 60]

\* new Date(`${t}${offsetStr}`) for an offset-less string t
DateParseWithSuffix(t, offsetStr) ==
    IF t.kind # "naive" \/ offsetStr.hh > 99 THEN NaN
    ELSE t.t - offsetStr.sign * (offsetStr.hh * 60 + offsetStr.mm)

\* lonDeg || 0
OrZero(x) == IF x = NaN \/ x = Undefined THEN 0 ELSE x

estimateOffsetFromLongitudeMinutes(lonDeg) == RoundDiv(lonDeg * 4, 3000) * 30

\* coerceDateWithTimezone of weather/services/brightnessIndex.ts
coerceDateWithTimezone_weather(t, tzOffsetMin, lonDeg, preferLongitudeOffset, devTz) ==
    IF IsDateObject(t) \/ t.kind \in {"epoch", "nan"} THEN coerceDate(t, devTz)
    ELSE IF hasTz(t) THEN [threw |-> FALSE, d |-> DateParse(t, devTz)]
    ELSE LET offsetMin ==
                 IF preferLongitudeOffset
                 THEN (IF IsFinite(tzOffsetMin) THEN tzOffsetMin
                       ELSE estimateOffsetFromLongitudeMinutes(OrZero(lonDeg)))
                 ELSE (IF IsFinite(tzOffsetMin) THEN tzOffsetMin ELSE 0)
         IN  [threw |-> FALSE,
              d |-> DateParseWithSuffix(t, minutesToTzOffset(offsetMin))]

\* coerceDateWithTimezone of the simple version (no attenuation)
coerceDateWithTimezone_simple(t, tzOffsetMin, lonDeg, preferLongitudeOffset, devTz) ==
    IF ~IsString(t) THEN coerceDate(t, devTz)
    ELSE IF hasTz(t) THEN [threw |-> FALSE, d |-> DateParse(t, devTz)]
    ELSE LET offsetMin ==
                 IF preferLongitudeOffset
                 THEN RoundDiv(OrZero(lonDeg), 1500) * 60
                 ELSE (IF IsFinite(tzOffsetMin) THEN tzOffsetMin ELSE 0)
         IN  [threw |-> FALSE,
              d |-> DateParseWithSuffix(t, minutesToTzOffset(offsetMin))]

---------------------------------------------------------------------------
(* Solar position (NOAA approximation) *)

\* faulty variant of TrueSolarTime: the remainder alone, which JavaScript
\* leaves negative for a negative sum
TrueSolarTime_remainderOnly(hourMin, eqtime, lonDeg, tzOffsetMin) ==
    JsRem(hourMin * 100 + (eqtime + 4 * lonDeg - tzOffsetMin * 100), 144000)

\* timeOffset and tst, centi-minutes: (hour * 60 + timeOffset) % 1440, plus
\* 1440 when negative.  eqtime is centi-minutes, lonDeg centi-degrees.
TrueSolarTime(hourMin, eqtime, lonDeg, tzOffsetMin) ==
    LET timeOffset == eqtime + 4 * lonDeg - tzOffsetMin * 100
        tst0       == JsRem(hourMin * 100 + timeOffset, 144000)
    IN  IF tst0 < 0 THEN tst0 + 144000 ELSE tst0

\* tst / 4 - 180, centi-degrees
HourAngle(tst) == tst \div 4 - 18000

\* The formula shared by every solarAltitudeDeg: from the day of the year
\* and the minute of the day to true solar time and altitude.
SolarFromDayHour(day, hourMin, latDeg, lonDeg, tzOffsetMin) ==
    LET m      == (day - 1) * MinutesPerDay + hourMin - 720
        gamma  == (m * 5) \div 73
        cg     == MathCos(gamma)
        sg     == MathSin(gamma)
        c2g    == MathCos(2 * gamma)
        s2g    == MathSin(2 * gamma)
        c3g    == MathCos(3 * gamma)
        s3g    == MathSin(3 * gamma)
        eqSum  == 750000 + 1868 * cg - 32077 * sg - 14615 * c2g - 40849 * s2g
        eqtime == ((eqSum \div 100000) * 22918) \div 100000
        dSum   == 6918000 - 39991 * cg + 7026 * sg - 676 * c2g + 91 * s2g
                  - 270 * c3g + 148 * s3g
        decl   == ((dSum \div 10000) * 5730) \div 100000
        tst    == TrueSolarTime(hourMin, eqtime, lonDeg, tzOffsetMin)
        ha     == HourAngle(tst)
        cosZenith == (MathSin(latDeg) * MathSin(decl)) \div 10000
                     + (((MathCos(latDeg) * MathCos(decl)) \div 10000) * MathCos(ha)) \div 10000
    IN  [day |-> day, hour |-> hourMin, tst |-> tst,
         alt |-> AltFromCosZenith(clamp(0 - 10000, cosZenith, 10000))]

NaNSolar == [day |-> NaN, hour |-> NaN, tst |-> NaN, alt |-> NaN]

\* dayOfYear(d): ordinal of d's date in the runtime's zone
dayOfYear(d, devTz) ==
    LET localWall == d + devTz
        start     == (YearStartDay(DayOf(localWall)) - 1) * MinutesPerDay - devTz
        diff      == d - start
    IN  diff \div MinutesPerDay

\* solarAltitudeDeg of services/brightnessIndex.ts and of the simple version:
\* getHours / getMinutes / getFullYear read the Date in the runtime's zone
solarAltitudeDeg_services(localDate, latDeg, lonDeg, tzOffsetMin, devTz) ==
    IF IsNaN(localDate) THEN NaNSolar
    ELSE SolarFromDayHour(dayOfYear(localDate, devTz),
                          MinuteOfDay(localDate + devTz),
                          latDeg, lonDeg, tzOffsetMin)

\* getLocalHMSfromUTC: minute of the day of d shifted by tzOffsetMin
getLocalHMSfromUTC(d, tzOffsetMin) ==
    LET mins == MinuteOfDay(d) + tzOffsetMin
    IN  (JsRem(mins, 1440) + 1440) % 1440

\* dayOfYearLocal
dayOfYearLocal(d, tzOffsetMin) ==
    LET local  == d + tzOffsetMin
        start  == YearStartDay(DayOf(local)) * MinutesPerDay
        diffMs == local - start
    IN  diffMs \div MinutesPerDay + 1

\* solarAltitudeDeg of weather/services/brightnessIndex.ts
solarAltitudeDeg_weather(localInstant, latDeg, lonDeg, tzOffsetMin) ==
    IF IsNaN(localInstant) THEN NaNSolar
    ELSE SolarFromDayHour(dayOfYearLocal(localInstant, tzOffsetMin),
                          getLocalHMSfromUTC(localInstant, tzOffsetMin),
                          latDeg, lonDeg, tzOffsetMin)

---------------------------------------------------------------------------
(* Brightness model components *)

\* Math.pow(Math.sin((Math.PI / 2) * x), 0.9) at x = d / 60, d = 0..60
EaseTable == <<
    0, 377, 703, 1012, 1310, 1600, 1883, 2161, 2433, 2700,
    2963, 3221, 3475, 3725, 3971, 4213, 4450, 4684, 4913, 5138,
    5359, 5575, 5788, 5995, 6199, 6397, 6592, 6781, 6966, 7145,
    7320, 7490, 7655, 7815, 7970, 8119, 8263, 8402, 8536, 8663,
    8786, 8902, 9013, 9119, 9218, 9312, 9400, 9482, 9558, 9629,
    9693, 9751, 9803, 9849, 9889, 9923, 9951, 9972, 9988, 9997,
    10000 >>

\* the ease term for x in 0..10000, NaN for NaN
Ease(x) ==
    IF IsNaN(x) THEN NaN
    ELSE LET t == (x * 600) \div 10000
             d == t \div 10
             r == t % 10
         IN  IF d >= 60 THEN 10000
             ELSE EaseTable[d + 1] + ((EaseTable[d + 2] - EaseTable[d + 1]) * r) \div 10

\* The bands of the canonical daylightFactorFromAltitude, altitude in tenths
\* of a degree.
BandNight(altDeg) == 0

BandAstronomical(altDeg) == lerp(100, 600, altDeg + 180, 60)

\* faulty variant of BandNautical: the end values swapped
BandNautical_swapped(altDeg) == lerp(2000, 600, altDeg + 120, 60)

BandNautical(altDeg) == lerp(600, 2000, altDeg + 120, 60)

\* faulty variant of BandCivil: the band ends at 0.5, not at 0.55
BandCivil_endsLow(altDeg) == lerp(2000, 5000, altDeg + 60, 60)

BandCivil(altDeg) == lerp(2000, 5500, altDeg + 60, 60)

BandDay(altDeg) ==
    LET x    == clamp01(IF IsNaN(altDeg) THEN NaN ELSE (altDeg * 10000) \div 600)
        ease == Ease(x)
    IN  clamp01(IF IsNaN(ease) THEN NaN ELSE 5500 + (4500 * ease) \div 10000)

\* daylightFactorFromAltitude of services/brightnessIndex.ts, of the simple
\* version and of ConnectedWeather.tsx
daylightFactorFromAltitude(altDeg) ==
    IF Leq(altDeg, 0 - 180) THEN BandNight(altDeg)
    ELSE IF Leq(altDeg, 0 - 120) THEN BandAstronomical(altDeg)
    ELSE IF Leq(altDeg, 0 - 60) THEN BandNautical(altDeg)
    ELSE IF Leq(altDeg, 0) THEN BandCivil(altDeg)
    ELSE BandDay(altDeg)

\* The bands of daylightFactorFromAltitude of
\* weather/services/brightnessIndex.ts: night up to -9 degrees, twilight up
\* to the horizon, then three daytime bands.
WeatherBandNight(altDeg) == 0

WeatherBandTwilight(altDeg) == lerp(0, 1000, altDeg + 90, 90)

WeatherBandLowSun(altDeg) == lerp(1000, 3500, altDeg, 100)

\* faulty variant of WeatherBandMidSun: the band starts at 0.40
WeatherBandMidSun_startsHigh(altDeg) == lerp(4000, 7800, altDeg - 100, 200)

WeatherBandMidSun(altDeg) == lerp(3500, 7800, altDeg - 100, 200)

WeatherBandHighSun(altDeg) ==
    LET x    == clamp01(IF IsNaN(altDeg) THEN NaN
                        ELSE ((altDeg - 300) * 10000) \div 300)
        ease == IF IsNaN(x) THEN NaN ELSE MathSin((x * 9) \div 10)
    IN  clamp01(IF IsNaN(ease) THEN NaN ELSE 7800 + (2200 * ease) \div 10000)

\* daylightFactorFromAltitude of weather/services/brightnessIndex.ts
daylightFactorFromAltitude_weather(altDeg) ==
    IF Leq(altDeg, 0 - 90) THEN WeatherBandNight(altDeg)
    ELSE IF Leq(altDeg, 0) THEN WeatherBandTwilight(altDeg)
    ELSE IF Leq(altDeg, 100) THEN WeatherBandLowSun(altDeg)
    ELSE IF Leq(altDeg, 300) THEN WeatherBandMidSun(altDeg)
    ELSE WeatherBandHighSun(altDeg)

\* faulty variant of weatherCodeTransmittance: the rain range ends at 65
weatherCodeTransmittance_rainEndsAt65(code) ==
    IF code = 0 \/ code = 1 \/ code = 2 THEN 10000
    ELSE IF code = 3 THEN 9000
    ELSE IF code = 45 \/ code = 48 THEN 5000
    ELSE IF code >= 51 /\ code <= 57 THEN 8500
    ELSE IF code >= 61 /\ code <= 65 THEN 7500
    ELSE IF code >= 71 /\ code <= 77 THEN 8500
    ELSE IF code >= 80 /\ code <= 82 THEN 7000
    ELSE IF code = 85 \/ code = 86 THEN 8000
    ELSE IF code = 95 THEN 6000
    ELSE IF code = 96 \/ code = 99 THEN 5500
    ELSE 8500

weatherCodeTransmittance(code) ==
    IF code = 0 \/ code = 1 \/ code = 2 THEN 10000
    ELSE IF code = 3 THEN 9000
    ELSE IF code = 45 \/ code = 48 THEN 5000
    ELSE IF code >= 51 /\ code <= 57 THEN 8500
    ELSE IF code >= 61 /\ code <= 67 THEN 7500
    ELSE IF code >= 71 /\ code <= 77 THEN 8500
    ELSE IF code >= 80 /\ code <= 82 THEN 7000
    ELSE IF code = 85 \/ code = 86 THEN 8000
    ELSE IF code = 95 THEN 6000
    ELSE IF code = 96 \/ code = 99 THEN 5500
    ELSE 8500

isSnowCode(code) == (code >= 71 /\ code <= 77) \/ code = 85 \/ code = 86

\* Math.pow(cloudFrac, 1.2) at cloudFrac = p / 100, p = 0..100
Pow12Table == <<
    0, 40, 91, 149, 210, 275, 342, 411, 483, 556, 631, 707, 785,
    864, 945, 1026, 1109, 1193, 1277, 1363, 1450, 1537, 1625, 1714, 1804, 1895,
    1986, 2078, 2171, 2264, 2358, 2453, 2548, 2644, 2740, 2837, 2935, 3033, 3131,
    3231, 3330, 3430, 3531, 3632, 3734, 3836, 3938, 4041, 4145, 4248, 4353, 4457,
    4563, 4668, 4774, 4880, 4987, 5094, 5201, 5309, 5417, 5526, 5635, 5744, 5854,
    5963, 6074, 6184, 6295, 6406, 6518, 6630, 6742, 6855, 6968, 7081, 7194, 7308,
    7422, 7536, 7651, 7766, 7881, 7996, 8112, 8228, 8344, 8461, 8578, 8695, 8812,
    8930, 9048, 9166, 9284, 9403, 9522, 9641, 9760, 9880, 10000 >>

\* Math.pow(cloudFrac, 1.2) for cloudFrac in 0..10000 (whole percents)
Pow12(cloudFrac) == Pow12Table[cloudFrac \div 100 + 1]

\* faulty variant of CloudTransmittance: the cloud term is added
CloudTransmittance_added(alt, cloudCoverPct) ==
    LET cloudFrac == clamp01(Coalesce(cloudCoverPct, 0) * 100)
        altFactor == clamp01((alt * 10000) \div 600)
        cloudAttenuationStrength == clamp(5500, 8500 - (2500 * altFactor) \div 10000, 8500)
    IN  10000 + (cloudAttenuationStrength * Pow12(cloudFrac)) \div 10000

\* T_cloud: the cloud term, stronger when the sun is low.  cloudCoverPct is
\* whole percents, alt tenths of a degree.
CloudTransmittance(alt, cloudCoverPct) ==
    LET cloudFrac == clamp01(Coalesce(cloudCoverPct, 0) * 100)
        altFactor == clamp01((alt * 10000) \div 600)
        cloudAttenuationStrength == clamp(5500, 8500 - (2500 * altFactor) \div 10000, 8500)
    IN  10000 - (cloudAttenuationStrength * Pow12(cloudFrac)) \div 10000

\* faulty variant of PrecipTransmittance: the 50 % cap applied to every hour
PrecipTransmittance_alwaysCapped(precipMm) == 10000 - 5000

\* T_precip: precipMm is tenths of a millimetre per hour.  The call is
\* clamp(precipMm / 10, 0, 0.5) with the signature clamp(min, v, max).
PrecipTransmittance(precipMm) ==
    LET mm == MathMax(0, Coalesce(precipMm, 0))
    IN  10000 - clamp(mm * 100, 0, 5000)

\* faulty variant of TotalTransmittance: the product is not clamped
TotalTransmittance_unclamped(alt, h) ==
    (((CloudTransmittance(alt, h.cloudCoverPct) * PrecipTransmittance(h.precipMm)) \div 10000)
        * weatherCodeTransmittance(Coalesce(h.weatherCode, 0))) \div 10000

\* T_total = clamp01(T_cloud * T_precip * T_code)
TotalTransmittance(alt, h) ==
    clamp01((((CloudTransmittance(alt, h.cloudCoverPct) * PrecipTransmittance(h.precipMm))
                  \div 10000)
              * weatherCodeTransmittance(Coalesce(h.weatherCode, 0))) \div 10000)

\* The attenuation of one observation (services/brightnessIndex.ts): from
\* the base daylight and the altitude to the index.
AttenuatedIndex(base, alt, h) ==
    IF IsNaN(base) THEN NaN
    ELSE
    LET wmo       == Coalesce(h.weatherCode, 0)
        T_total   == TotalTransmittance(alt, h)
        index     == clamp01((base * (3500 + (6500 * T_total) \div 10000)) \div 10000)
    IN  IF isSnowCode(wmo) /\ Gt(alt, 50)
        THEN MathMin(10000, (index * 11) \div 10)
        ELSE index

---------------------------------------------------------------------------
(* One element of hours.map(...) in each implementation: [threw, index, sol] *)

Thrown == [threw |-> TRUE, index |-> NaN, sol |-> NaNSolar]

\* services/brightnessIndex.ts
Element_services(h, o, devTz) ==
    LET tzOffset == Coalesce(o.timezoneOffsetMinutes, 0)
        t        == coerceDate(h.time, devTz)
        local    == Plus(t.d, tzOffset)
        sol      == solarAltitudeDeg_services(local, o.latitude, o.longitude, tzOffset, devTz)
        base     == daylightFactorFromAltitude(sol.alt)
    IN  IF t.threw THEN Thrown
        ELSE [threw |-> FALSE, index |-> AttenuatedIndex(base, sol.alt, h), sol |-> sol]

\* the simple version (attenuation removed)
Element_simple(h, o, devTz) ==
    LET tzOffset  == Coalesce(o.timezoneOffsetMinutes, 0)
        preferLon == ~o.timesAreUTC
        t         == coerceDateWithTimezone_simple(h.time, tzOffset, o.longitude, preferLon, devTz)
        local     == IF o.timesAreUTC THEN Plus(t.d, tzOffset) ELSE t.d
        sol       == solarAltitudeDeg_services(local, o.latitude, o.longitude, tzOffset, devTz)
        base      == daylightFactorFromAltitude(sol.alt)
    IN  IF t.threw THEN Thrown
        ELSE [threw |-> FALSE, index |-> clamp01(base), sol |-> sol]

\* weather/services/brightnessIndex.ts
Element_weather(h, o, devTz) ==
    LET tzOffset  == Coalesce(o.timezoneOffsetMinutes, 0)
        preferLon == ~o.timesAreUTC
        t         == coerceDateWithTimezone_weather(h.time, tzOffset, o.longitude, preferLon, devTz)
        local     == IF o.timesAreUTC THEN Plus(t.d, tzOffset) ELSE t.d
        sol       == solarAltitudeDeg_weather(local, o.latitude, o.longitude, tzOffset)
        base      == daylightFactorFromAltitude_weather(sol.alt)
        val       == clamp01(base)
    IN  IF t.threw THEN Thrown
        ELSE [threw |-> FALSE, index |-> IF IsFinite(val) THEN val ELSE 0, sol |-> sol]

\* the copy in weather/ConnectedWeather.tsx
Element_connected(h, o, devTz) ==
    LET tzOffset  == Coalesce(o.timezoneOffsetMinutes, 0)
        preferLon == ~o.timesAreUTC
        t         == coerceDateWithTimezone_weather(h.time, tzOffset, o.longitude, preferLon, devTz)
        local     == IF o.timesAreUTC THEN Plus(t.d, tzOffset) ELSE t.d
        sol       == solarAltitudeDeg_weather(local, o.latitude, o.longitude, tzOffset)
        base      == daylightFactorFromAltitude(sol.alt)
    IN  IF t.threw THEN Thrown
        ELSE [threw |-> FALSE, index |-> clamp01(base), sol |-> sol]

\* no diagnostics ran: the implementation has none, or the call threw before
NoDiag == [ran |-> FALSE, caught |-> FALSE, span |-> NaN, warned |-> FALSE]

\* hours.map(...): an exception in one element ends the whole call
MapResult(els) ==
    IF \E i \in DOMAIN els : els[i].threw
    THEN [threw |-> TRUE, result |-> <<>>, solar |-> <<>>, diag |-> NoDiag]
    ELSE [threw  |-> FALSE,
          result |-> [i \in DOMAIN els |-> els[i].index],
          solar  |-> [i \in DOMAIN els |-> els[i].sol],
          diag   |-> NoDiag]

computeDaylightBrightnessIndex_services(hs, o, devTz) ==
    MapResult([i \in 1..Len(hs) |-> Element_services(hs[i], o, devTz)])

computeDaylightBrightnessIndex_simple(hs, o, devTz) ==
    MapResult([i \in 1..Len(hs) |-> Element_simple(hs[i], o, devTz)])

\* Math.min(...arr) and Math.max(...arr) of a non-empty array
MathMinOf(arr) ==
    IF \E i \in DOMAIN arr : IsNaN(arr[i]) THEN NaN
    ELSE CHOOSE v \in { arr[i] : i \in DOMAIN arr } : \A j \in DOMAIN arr : v <= arr[j]

MathMaxOf(arr) ==
    IF \E i \in DOMAIN arr : IsNaN(arr[i]) THEN NaN
    ELSE CHOOSE v \in { arr[i] : i \in DOMAIN arr } : \A j \in DOMAIN arr : v >= arr[j]

\* faulty variant of tryDiagnostics: no try/catch around the body
tryDiagnostics_noCatch(hs, res, o, raises) ==
    IF Len(res) = 0 THEN [escaped |-> FALSE, result |-> res, diag |-> NoDiag]
    ELSE LET span == MathMaxOf(res) - MathMinOf(res)
         IN  [escaped |-> raises,
              result  |-> res,
              diag    |-> [ran    |-> TRUE,
                           caught |-> FALSE,
                           span   |-> IF raises THEN NaN ELSE span,
                           warned |-> ~raises /\ span < 200]]

\* tryDiagnostics(hours, result, opts): reads the array and the options and
\* logs.  raises says whether a statement of the body raised an exception
\* (the spread of a very long array, a console that throws); the catch
\* clause logs it.  The text of the log lines is not part of the state; the
\* span and whether the small-span warning was written are.
tryDiagnostics(hs, res, o, raises) ==
    IF Len(res) = 0 THEN [escaped |-> FALSE, result |-> res, diag |-> NoDiag]
    ELSE LET span == MathMaxOf(res) - MathMinOf(res)
         IN  [escaped |-> FALSE,
              result  |-> res,
              diag    |-> [ran    |-> TRUE,
                           caught |-> raises,
                           span   |-> IF raises THEN NaN ELSE span,
                           warned |-> ~raises /\ span < 200]]

\* const result = hours.map(...) of weather/services/brightnessIndex.ts
MapHours_weather(hs, o, devTz) ==
    MapResult([i \in 1..Len(hs) |-> Element_weather(hs[i], o, devTz)])

\* the whole function: the map, then tryDiagnostics, then return result
computeDaylightBrightnessIndex_weather(hs, o, devTz, raises) ==
    LET m == MapHours_weather(hs, o, devTz)
        d == tryDiagnostics(hs, m.result, o, raises)
    IN  IF m.threw THEN m
        ELSE IF d.escaped
        THEN [threw |-> TRUE, result |-> <<>>, solar |-> <<>>, diag |-> d.diag]
        ELSE [threw |-> FALSE, result |-> d.result, solar |-> m.solar, diag |-> d.diag]

computeDaylightBrightnessIndex_connected(hs, o, devTz) ==
    MapResult([i \in 1..Len(hs) |-> Element_connected(hs[i], o, devTz)])

\* arr[i] of a JavaScript array: undefined past its end
At(arr, i) == IF i <= Len(arr) THEN arr[i] ELSE Undefined

\* faulty variant of HoursFromArrays: entry 0 of each array for every i
HoursFromArrays_firstEntry(times, cloudCoverPct, precipMm, weatherCodes) ==
    [i \in 1..Len(times) |->
        [time          |-> times[i],
         cloudCoverPct |-> Coalesce(At(cloudCoverPct, 1), 0),
         precipMm      |-> Coalesce(At(precipMm, 1), 0),
         weatherCode   |-> Coalesce(At(weatherCodes, 1), 0)]]

\* the hours that computeDaylightBrightnessIndexFromArrays builds
HoursFromArrays(times, cloudCoverPct, precipMm, weatherCodes) ==
    [i \in 1..Len(times) |->
        [time          |-> times[i],
         cloudCoverPct |-> Coalesce(At(cloudCoverPct, i), 0),
         precipMm      |-> Coalesce(At(precipMm, i), 0),
         weatherCode   |-> Coalesce(At(weatherCodes, i), 0)]]

computeDaylightBrightnessIndexFromArrays(times, cloudCoverPct, precipMm, weatherCodes, o, devTz) ==
    computeDaylightBrightnessIndex_services(
        HoursFromArrays(times, cloudCoverPct, precipMm, weatherCodes), o, devTz)

---------------------------------------------------------------------------
(* Inputs *)

\* wall-clock minute of day index d (2024-01-01 = 0), hour h, minute m
Wall(d, h, m) == (d * 24 + h) * 60 + m

Jun21 == 366 + 171
Dec31 == 366 + 364

Time(kind, t, off) == [kind |-> kind, t |-> t, off |-> off]

Obs(time, cloud, precip, code) ==
    [time |-> time, cloudCoverPct |-> cloud, precipMm |-> precip, weatherCode |-> code]

\* The observations batches are built from: every accepted form of a
\* timestamp, in-range, out-of-range and absent atmospheric values.
ValidPool ==
    { Obs(Time("naive",  Wall(Jun21, 12, 0), 0),    100, 0, 3),
      Obs(Time("naive",  Wall(Dec31, 23, 30), 0),   Undefined, Undefined, Undefined),
      Obs(Time("zulu",   Wall(Jun21, 10, 0), 0),    40, 25, 61),
      Obs(Time("offset", Wall(Jun21, 12, 0), 120),  150, 0 - 10, 1234),
      Obs(Time("epoch",  Wall(Jun21, 10, 0), 0),    0, 300, 95),
      Obs(Time("date",   Wall(Dec31, 22, 30), 0),   20, 0, 71) }

InvalidPool ==
    { Obs(Time("garbage", 0, 0), 0, 0, 0),
      Obs(Time("nan",     0, 0), 0, 0, 0),
      Obs(Time("baddate", 0, 0), 0, 0, 0) }

Pool == ValidPool \cup InvalidPool

Batches == UNION { [1..n -> Pool] : n \in 1..MaxLen }

\* Berlin and New York, in centi-degrees
Locations == { [latitude |-> 5252, longitude |-> 1341],
               [latitude |-> 4071, longitude |-> 0 - 7401] }

TzOffsets == { Undefined, 120, 0 - 300 }

\* the runtime in UTC and in New York
DeviceZones == { 0, 0 - 300 }

OptionSet ==
    { [latitude |-> l.latitude, longitude |-> l.longitude,
       timezoneOffsetMinutes |-> tz, timesAreUTC |-> u] :
         l \in Locations, tz \in TzOffsets, u \in BOOLEAN }

NoArrays == [times |-> <<>>, cloudCoverPct |-> <<>>, precipMm |-> <<>>, weatherCodes |-> <<>>]

\* no function is being evaluated on its own
NoProbe == [fn |-> "none"]

\* the hook is not mounted
NoHook == [mounted |-> FALSE]

---------------------------------------------------------------------------
(* The calls *)

Init ==
    /\ hours \in Batches
    /\ opts \in OptionSet
    /\ deviceTz \in DeviceZones
    /\ pc = "input"
    /\ callee = "none"
    /\ threw = FALSE
    /\ result = <<>>
    /\ solar = <<>>
    /\ arrays = NoArrays
    /\ altA = 0 /\ altB = 0 /\ fA = 0 /\ fB = 0
    /\ diag = NoDiag
    /\ inp = NoProbe /\ out = NoProbe
    /\ hook = NoHook /\ net = NoHook /\ trace = NoHook

Return(name, r) ==
    /\ pc' = "done"
    /\ callee' = name
    /\ threw' = r.threw
    /\ result' = r.result
    /\ solar' = r.solar
    /\ diag' = r.diag
    /\ UNCHANGED <<hours, opts, deviceTz, curveVars, probeVars, hookVars>>

CallServices ==
    /\ pc = "input"
    /\ Return("services", computeDaylightBrightnessIndex_services(hours, opts, deviceTz))
    /\ UNCHANGED arrays

CallSimple ==
    /\ pc = "input"
    /\ Return("simple", computeDaylightBrightnessIndex_simple(hours, opts, deviceTz))
    /\ UNCHANGED arrays

CallWeather ==
    /\ pc = "input"
    /\ \E raises \in BOOLEAN :
         Return("weather", computeDaylightBrightnessIndex_weather(hours, opts, deviceTz, raises))
    /\ UNCHANGED arrays

CallConnected ==
    /\ pc = "input"
    /\ Return("connected", computeDaylightBrightnessIndex_connected(hours, opts, deviceTz))
    /\ UNCHANGED arrays

\* the caller passes the times and the first k atmospheric values
CallFromArrays ==
    /\ pc = "input"
    /\ \E k \in 0..Len(hours) :
         LET a == [times         |-> [i \in 1..Len(hours) |-> hours[i].time],
                   cloudCoverPct |-> [i \in 1..k |-> hours[i].cloudCoverPct],
                   precipMm      |-> [i \in 1..k |-> hours[i].precipMm],
                   weatherCodes  |-> [i \in 1..k |-> hours[i].weatherCode]]
         IN  /\ arrays' = a
             /\ Return("fromArrays",
                       computeDaylightBrightnessIndexFromArrays(
                           a.times, a.cloudCoverPct, a.precipMm, a.weatherCodes,
                           opts, deviceTz))

Next ==
    \/ CallServices
    \/ CallSimple
    \/ CallWeather
    \/ CallConnected
    \/ CallFromArrays

Spec == Init /\ [][Next]_vars

---------------------------------------------------------------------------
(* Evaluating the altitude curve on its own *)

\* Altitudes in tenths of a degree: every tenth around the twilight bands,
\* every whole degree over [-90, 90].
AltGrid == (0 - 200 .. 20) \cup { 10 * d : d \in 0 - 90 .. 90 }

\* the altitudes at which one band hands over to the next
Breakpoints == { 0 - 180, 0 - 120, 0 - 60, 0 }

InitCurve ==
    /\ hours = <<>>
    /\ opts = CHOOSE o \in OptionSet : TRUE
    /\ deviceTz = 0
    /\ pc = "curve"
    /\ callee = "none"
    /\ threw = FALSE
    /\ result = <<>>
    /\ solar = <<>>
    /\ arrays = NoArrays
    /\ altA \in AltGrid
    /\ altB = altA
    /\ fA = NaN
    /\ fB = NaN
    /\ diag = NoDiag
    /\ inp = NoProbe /\ out = NoProbe
    /\ hook = NoHook /\ net = NoHook /\ trace = NoHook

\* daylightFactorFromAltitude applied to altA and to a higher altitude
EvalDaylightFactor ==
    /\ pc = "curve"
    /\ \E b \in AltGrid :
         /\ b > altA
         /\ altB' = b
         /\ fB' = daylightFactorFromAltitude(b)
    /\ fA' = daylightFactorFromAltitude(altA)
    /\ pc' = "curveDone"
    /\ UNCHANGED <<altA, batchVars, probeVars, hookVars>>

\* the altitudes at which the bands of weather/services hand over
WeatherBreakpoints == { 0 - 90, 0, 100, 300 }

\* daylightFactorFromAltitude of weather/services/brightnessIndex.ts applied
\* to altA and to a higher altitude
EvalDaylightFactorWeather ==
    /\ pc = "curve"
    /\ \E b \in AltGrid :
         /\ b > altA
         /\ altB' = b
         /\ fB' = daylightFactorFromAltitude_weather(b)
    /\ fA' = daylightFactorFromAltitude_weather(altA)
    /\ pc' = "curveDoneWeather"
    /\ UNCHANGED <<altA, batchVars, probeVars, hookVars>>

NextCurve ==
    \/ EvalDaylightFactor
    \/ EvalDaylightFactorWeather

SpecCurve == InitCurve /\ [][NextCurve]_vars

---------------------------------------------------------------------------
(* Evaluating the attenuation on its own *)

\* solar altitudes, tenths of a degree: below and inside the twilight
\* bands, around the 5 degree snow threshold, up to the zenith
AttenAlts == { 0 - 900, 0 - 180, 0 - 179, 0 - 120, 0 - 60, 0 - 1, 0, 1, 49, 50, 51,
               300, 600, 900 }

\* cloud cover in percent: absent, below range, in range, above range
AttenClouds == { Undefined, 0 - 20, 0, 50, 100, 150 }

\* precipitation in tenths of a millimetre: absent, negative, none, light,
\* the 5 mm at which the cap is documented, 10 mm and 30 mm
AttenPrecips == { Undefined, 0 - 10, 0, 25, 50, 100, 300 }

\* weather codes: absent, negative, every code of the WMO range, an unknown one
AttenCodes == { Undefined, 1234 } \cup (0 - 1 .. 100)

InitAtten ==
    /\ hours = <<>>
    /\ opts = CHOOSE o \in OptionSet : TRUE
    /\ deviceTz = 0
    /\ pc = "atten"
    /\ callee = "none"
    /\ threw = FALSE
    /\ result = <<>>
    /\ solar = <<>>
    /\ arrays = NoArrays
    /\ altA = 0 /\ altB = 0 /\ fA = 0 /\ fB = 0
    /\ diag = NoDiag
    /\ inp \in { [fn |-> "atten", alt |-> a, cloudCoverPct |-> c, precipMm |-> p,
                   weatherCode |-> k] :
                     a \in AttenAlts, c \in AttenClouds, p \in AttenPrecips, k \in AttenCodes }
    /\ out = NoProbe
    /\ hook = NoHook /\ net = NoHook /\ trace = NoHook

\* lines 37-65 of the map callback of services/brightnessIndex.ts, for the
\* altitude inp.alt
EvalAttenuation ==
    /\ pc = "atten"
    /\ LET base == daylightFactorFromAltitude(inp.alt)
       IN  out' = [fn       |-> "atten",
                   base     |-> base,
                   T_cloud  |-> CloudTransmittance(inp.alt, inp.cloudCoverPct),
                   T_precip |-> PrecipTransmittance(inp.precipMm),
                   T_code   |-> weatherCodeTransmittance(Coalesce(inp.weatherCode, 0)),
                   T_total  |-> TotalTransmittance(inp.alt, inp),
                   index    |-> AttenuatedIndex(base, inp.alt, inp)]
    /\ pc' = "attenDone"
    /\ UNCHANGED <<batchVars, curveVars, inp, hookVars>>

NextAtten == EvalAttenuation

SpecAtten == InitAtten /\ [][NextAtten]_vars

---------------------------------------------------------------------------
(* Evaluating the true solar time on its own *)

\* minutes of the day: every half hour, and the last minute
TstHours == { 30 * k : k \in 0 .. 47 } \cup { 1, 1439 }

\* longitudes in centi-degrees, from -180 to 180 degrees
TstLongitudes == { 0 - 18000, 0 - 7401, 0, 1341, 18000 }

\* UTC offsets in minutes, from UTC-12 to UTC+14
TstOffsets == { 0 - 720, 0 - 300, 0, 120, 840 }

\* equation of time in centi-minutes: its yearly extremes, zero, and values
\* beyond what the formula yields
TstEqTimes == { 0 - 3000, 0 - 1425, 0, 1644, 3000 }

InitTst ==
    /\ hours = <<>>
    /\ opts = CHOOSE o \in OptionSet : TRUE
    /\ deviceTz = 0
    /\ pc = "tst"
    /\ callee = "none"
    /\ threw = FALSE
    /\ result = <<>>
    /\ solar = <<>>
    /\ arrays = NoArrays
    /\ altA = 0 /\ altB = 0 /\ fA = 0 /\ fB = 0
    /\ diag = NoDiag
    /\ inp \in { [fn |-> "tst", hour |-> h, eqtime |-> e, lonDeg |-> l, tzOffsetMin |-> z] :
                     h \in TstHours, e \in TstEqTimes, l \in TstLongitudes, z \in TstOffsets }
    /\ out = NoProbe
    /\ hook = NoHook /\ net = NoHook /\ trace = NoHook

\* the true-solar-time and hour-angle lines of solarAltitudeDeg
EvalTrueSolarTime ==
    /\ pc = "tst"
    /\ LET tst == TrueSolarTime(inp.hour, inp.eqtime, inp.lonDeg, inp.tzOffsetMin)
       IN  out' = [fn  |-> "tst",
                   sum |-> inp.hour * 100 + inp.eqtime + 4 * inp.lonDeg
                             - inp.tzOffsetMin * 100,
                   tst |-> tst,
                   ha  |-> HourAngle(tst)]
    /\ pc' = "tstDone"
    /\ UNCHANGED <<batchVars, curveVars, inp, hookVars>>

NextTst == EvalTrueSolarTime

SpecTst == InitTst /\ [][NextTst]_vars

---------------------------------------------------------------------------
(* Claims about the attenuation *)

\* 0.35 * base at the resolution of the fixed point
FloorOf(base) == (3500 * base) \div 10000

\* C11: for any base > 0 and any cloud cover, precipitation and weather
\* code, out-of-range and unknown ones included, the attenuated index is at
\* least 0.35 * base.
C11_AttenuationFloor ==
    (pc = "attenDone" /\ out.base > 0) =>
        /\ out.index >= FloorOf(out.base)
        /\ out.index > 0

\* C11 witness: 30 mm of rain drive the product of the transmittances below
\* zero, and the index is exactly the floor
C11_Witness ==
    /\ pc = "attenDone"
    /\ inp.precipMm = 300
    /\ inp.cloudCoverPct = 50
    /\ out.base = 10000
    /\ out.T_precip < 0
    /\ out.index = 3500

\* clamp to [0, 1]
Unit(x) == IF x < 0 THEN 0 ELSE IF x > 10000 THEN 10000 ELSE x

\* the codes the specification lists as snow
SnowCodes == (71 .. 77) \cup { 85, 86 }

\* T_precip as documented: 1 - clamp(precipRateMm / 10, 0, 0.5), the value
\* clamped being precipRateMm / 10 (tenths of a millimetre in, scale 10000 out)
DocumentedPrecipTransmittance(precipMm) ==
    LET mm == IF Coalesce(precipMm, 0) < 0 THEN 0 ELSE Coalesce(precipMm, 0)
    IN  10000 - (IF mm * 100 > 5000 THEN 5000 ELSE mm * 100)

\* clamp01(base * (0.35 + 0.65 * T)) for T = clamp01(T_cloud * T_precip * T_code)
PlainIndex ==
    LET T == Unit((((out.T_cloud * DocumentedPrecipTransmittance(inp.precipMm)) \div 10000)
                     * out.T_code) \div 10000)
    IN  Unit((out.base * (3500 + (6500 * T) \div 10000)) \div 10000)

\* min(1, 1.1 * PlainIndex)
BoostedIndex ==
    IF (PlainIndex * 11) \div 10 > 10000 THEN 10000 ELSE (PlainIndex * 11) \div 10

\* C12: the index is min(1, 1.1 * clamp01(base * (0.35 + 0.65 T))) exactly
\* when the weather code is a snow code (71..77, 85, 86) and the altitude is
\* above 5 degrees, and clamp01(base * (0.35 + 0.65 T)) otherwise, with
\* T = clamp01(T_cloud * T_precip * T_code).
C12_SnowBoostFormula ==
    pc = "attenDone" =>
        LET snow == Coalesce(inp.weatherCode, 0) \in SnowCodes /\ inp.alt > 50
        IN  out.index = IF snow THEN BoostedIndex ELSE PlainIndex

\* C13: with cloud cover 100 %, no precipitation and weather code 3 the
\* index is strictly below the base and at least 0.35 * base, for any
\* base > 0 and at every solar altitude.
C13_OvercastBelowBase ==
    (/\ pc = "attenDone"
     /\ inp.cloudCoverPct = 100
     /\ inp.precipMm = 0
     /\ inp.weatherCode = 3
     /\ out.base > 0) =>
        /\ out.index < out.base
        /\ out.index >= FloorOf(out.base)

\* C13 witness: overcast with the sun at 60 degrees, where the base is 1
C13_Witness ==
    /\ pc = "attenDone"
    /\ inp.cloudCoverPct = 100
    /\ inp.precipMm = 0
    /\ inp.weatherCode = 3
    /\ inp.alt = 600
    /\ out.base = 10000
    /\ out.index < 10000
    /\ out.index >= 3500

\* the table of the specification
TableTransmittance(code) ==
    CASE code \in 0 .. 2     -> 10000
      [] code = 3            -> 9000
      [] code \in { 45, 48 } -> 5000
      [] code \in 51 .. 57   -> 8500
      [] code \in 61 .. 67   -> 7500
      [] code \in 71 .. 77   -> 8500
      [] code \in 80 .. 82   -> 7000
      [] code \in { 85, 86 } -> 8000
      [] code = 95           -> 6000
      [] code \in { 96, 99 } -> 5500
      [] OTHER               -> 8500

\* C15: weatherCodeTransmittance is defined for every integer code: 1.0 for
\* 0..2, 0.9 for 3, 0.5 for 45 and 48, 0.85 for 51..57, 0.75 for 61..67,
\* 0.85 for 71..77, 0.7 for 80..82, 0.8 for 85 and 86, 0.6 for 95, 0.55 for
\* 96 and 99, and 0.85 for every other code.
C15_CodeTable ==
    (pc = "attenDone" /\ inp.weatherCode # Undefined) =>
        /\ out.T_code = TableTransmittance(inp.weatherCode)
        /\ out.T_code = weatherCodeTransmittance(inp.weatherCode)

\* C15 witness: a code outside the table (1234) got the default 0.85
C15_Witness ==
    /\ pc = "attenDone"
    /\ inp.weatherCode = 1234
    /\ out.T_code = 8500

---------------------------------------------------------------------------
(* Claims about the altitude curve *)

\* the value at breakpoint bp of the band that ends there
LowerBandAt(bp) ==
    CASE bp = 0 - 180 -> BandNight(bp)
      [] bp = 0 - 120 -> BandAstronomical(bp)
      [] bp = 0 - 60  -> BandNautical(bp)
      [] OTHER        -> BandCivil(bp)

\* the value at breakpoint bp of the band that starts there
UpperBandAt(bp) ==
    CASE bp = 0 - 180 -> BandAstronomical(bp)
      [] bp = 0 - 120 -> BandNautical(bp)
      [] bp = 0 - 60  -> BandCivil(bp)
      [] OTHER        -> BandDay(bp)

C10_Monotone ==
    (pc = "curveDone" /\ altA < altB) =>
        /\ fA <= fB
        /\ fA \in 0..10000
        /\ fB \in 0..10000

\* C10 witness: a pair straddling the -12 degree boundary was evaluated
C10_Witness == pc = "curveDone" /\ altA = 0 - 121 /\ altB = 0 - 119 /\ fA < fB

---------------------------------------------------------------------------
(* Claims about a batch call *)

Reverse(s) == [i \in 1..Len(s) |-> s[Len(s) + 1 - i]]

Parses(t) == t.kind \in {"naive", "zulu", "offset", "epoch", "date"}

AllParse(hs) == \A i \in 1..Len(hs) : Parses(hs[i].time)

\* the absolute instant a Z or +HH:MM / -HH:MM string, a number or a Date names
InstantOf(t) == IF t.kind = "offset" THEN t.t - t.off ELSE t.t

\* 1-based ordinal, within its year, of the calendar day of minute m
OrdinalOfDay(m) == DayOf(m) - YearStartDay(DayOf(m)) + 1

\* the supplied timezoneOffsetMinutes, 0 when omitted
TzOf(o) == Coalesce(o.timezoneOffsetMinutes, 0)

\* timezoneOffsetMinutes is the real offset of the location at the model's dates
CorrectOffset(o) ==
    \/ o.longitude = 1341 /\ o.timezoneOffsetMinutes = 120
    \/ o.longitude = 0 - 7401 /\ o.timezoneOffsetMinutes = 0 - 300

\* the call of the state made again with other arguments
Recompute(name, hs, o, devTz) ==
    CASE name = "services"  -> computeDaylightBrightnessIndex_services(hs, o, devTz)
      [] name = "simple"    -> computeDaylightBrightnessIndex_simple(hs, o, devTz)
      [] name = "weather"   -> computeDaylightBrightnessIndex_weather(hs, o, devTz, FALSE)
      [] name = "connected" -> computeDaylightBrightnessIndex_connected(hs, o, devTz)
      [] OTHER              -> computeDaylightBrightnessIndexFromArrays(
                                   arrays.times, arrays.cloudCoverPct, arrays.precipMm,
                                   arrays.weatherCodes, o, devTz)

\* C1: when every timestamp of the batch parses, computeDaylightBrightnessIndex
\* (with attenuation, and the weather/services version) returns one value per
\* observation and every value lies in [0, 1]: not negative, not above 1, not NaN.
C1_RangeInvariant ==
    (pc = "done" /\ callee \in {"services", "fromArrays", "weather"} /\ AllParse(hours)) =>
        /\ ~threw
        /\ Len(result) = Len(hours)
        /\ \A i \in 1..Len(result) : result[i] \in 0..10000

\* C1 witness: the attenuating version returned a value strictly inside (0, 1)
\* for an observation with 30 mm/h of precipitation
C1_Witness ==
    /\ pc = "done" /\ callee = "services" /\ AllParse(hours)
    /\ \E i \in 1..Len(result) :
         /\ hours[i].precipMm = 300
         /\ result[i] > 0
         /\ result[i] < 10000

\* C2: computeDaylightBrightnessIndex and computeDaylightBrightnessIndexFromArrays
\* return as many values as they were given observations; value i is what the
\* call returns for observation i alone, and reversing the input reverses the
\* output.
C2_ElementWise ==
    (pc = "done" /\ callee \in {"services", "fromArrays"} /\ ~threw) =>
        /\ Len(result) = Len(hours)
        /\ callee = "services" =>
             /\ \A i \in 1..Len(hours) :
                  result[i] =
                    computeDaylightBrightnessIndex_services(<<hours[i]>>, opts, deviceTz).result[1]
             /\ computeDaylightBrightnessIndex_services(Reverse(hours), opts, deviceTz).result
                  = Reverse(result)
        /\ callee = "fromArrays" =>
             /\ Len(result) = Len(arrays.times)
             /\ \A i \in 1..Len(arrays.times) :
                  result[i] =
                    computeDaylightBrightnessIndexFromArrays(
                        <<arrays.times[i]>>, <<At(arrays.cloudCoverPct, i)>>,
                        <<At(arrays.precipMm, i)>>, <<At(arrays.weatherCodes, i)>>,
                        opts, deviceTz).result[1]

\* C2 witness: FromArrays returned two different values for two observations
\* whose atmospheric arrays were both supplied
C2_Witness ==
    /\ pc = "done" /\ callee = "fromArrays" /\ ~threw
    /\ Len(result) = 2 /\ Len(arrays.cloudCoverPct) = 2
    /\ arrays.cloudCoverPct[1] # arrays.cloudCoverPct[2]
    /\ result[1] # result[2]

\* C3: for a timestamp string ending in Z or in +HH:MM / -HH:MM the minute of
\* the day and the day of the year that solarAltitudeDeg works with are those
\* of the instant plus timezoneOffsetMinutes, added once, with timesAreUTC
\* true and with timesAreUTC false.
C3_OffsetAppliedOnce ==
    (pc = "done" /\ callee = "weather" /\ ~threw) =>
        \A i \in 1..Len(hours) :
            hasTz(hours[i].time) =>
                LET local == InstantOf(hours[i].time) + TzOf(opts)
                IN  /\ solar[i].hour = MinuteOfDay(local)
                    /\ solar[i].day = OrdinalOfDay(local)

\* C4: a local wall-clock string computed with timesAreUTC = false and the
\* same instant given as epoch milliseconds, as a Date or as a Z string and
\* computed with timesAreUTC = true, under the location's correct offset,
\* give the same hour of day, day of year, true solar time, altitude and
\* brightness.
C4_SameInstantSameResult ==
    (pc = "done" /\ callee \in {"weather", "connected"} /\ ~threw
        /\ ~opts.timesAreUTC /\ CorrectOffset(opts)) =>
        \A i \in 1..Len(hours) :
            hours[i].time.kind = "naive" =>
                \A k \in {"epoch", "date", "zulu"} :
                    LET utc   == [hours[i] EXCEPT
                                    !.time = Time(k, hours[i].time.t - TzOf(opts), 0)]
                        other == Recompute(callee, <<utc>>,
                                           [opts EXCEPT !.timesAreUTC = TRUE], deviceTz)
                    IN  /\ ~other.threw
                        /\ other.solar[1] = solar[i]
                        /\ other.result[1] = result[i]

\* C5: for a string "YYYY-MM-DDTHH:mm" without offset and timesAreUTC false or
\* omitted, solarAltitudeDeg works with the hour, the minute and the calendar
\* date written in the string, whatever timezoneOffsetMinutes and longitude.
C5_WallClockNotShifted ==
    (pc = "done" /\ callee \in {"weather", "simple", "services"} /\ ~threw
        /\ ~opts.timesAreUTC) =>
        \A i \in 1..Len(hours) :
            hours[i].time.kind = "naive" =>
                /\ solar[i].hour = MinuteOfDay(hours[i].time.t)
                /\ solar[i].day = OrdinalOfDay(hours[i].time.t)

\* C6: with the same arguments the call returns the same array (or fails the
\* same way) whatever the UTC offset of the device it runs on.
C6_DeviceZoneIndependent ==
    pc = "done" =>
        \A z \in DeviceZones :
            LET other == Recompute(callee, hours, opts, z)
            IN  /\ other.threw = threw
                /\ other.result = result

\* C7: a batch holding a timestamp no calendar instant can be parsed from (an
\* unparseable string, the number NaN, an invalid Date) ends in an error; no
\* number is returned in that element's place.
C7_InvalidTimestampFails ==
    (pc = "done" /\ callee = "weather"
        /\ \E i \in 1..Len(hours) : ~Parses(hours[i].time)) =>
        threw

\* C8: when one timestamp of a batch is malformed the call as a whole does not
\* throw, and every valid observation still gets, at its position, the value
\* it gets when computed alone.
C8_OneBadElementOnly ==
    (pc = "done" /\ callee \in {"services", "weather"}
        /\ Cardinality({i \in 1..Len(hours) : ~Parses(hours[i].time)}) = 1
        /\ \E i \in 1..Len(hours) : Parses(hours[i].time)) =>
        /\ ~threw
        /\ Len(result) = Len(hours)
        /\ \A i \in 1..Len(hours) :
             Parses(hours[i].time) =>
                 result[i] = Recompute(callee, <<hours[i]>>, opts, deviceTz).result[1]

\* observation i reached the attenuation without cloud cover, precipitation
\* or weather code: absent in the observation, or past the end of the arrays
NoAtmosphericData(i) ==
    \/ /\ callee = "services"
       /\ hours[i].cloudCoverPct = Undefined
       /\ hours[i].precipMm = Undefined
       /\ hours[i].weatherCode = Undefined
    \/ /\ callee = "fromArrays"
       /\ i > Len(arrays.cloudCoverPct)
       /\ i > Len(arrays.precipMm)
       /\ i > Len(arrays.weatherCodes)

\* the two implementations read the same local time from this timestamp: it
\* names an instant, and the offset is added to it once in both
SameLocalTime(t, o) == t.kind \in {"zulu", "offset", "epoch", "date"}
                       /\ (o.timesAreUTC \/ TzOf(o) = 0)

\* C14: an observation without atmospheric data (cloud cover, precipitation
\* and weather code absent, defaulted to 0) gets exactly
\* daylightFactorFromAltitude(altitude) from the attenuating
\* computeDaylightBrightnessIndex, the value the implementation without
\* attenuation returns.
C14_NoDataNoAttenuation ==
    (pc = "done" /\ callee \in {"services", "fromArrays"} /\ ~threw) =>
        \A i \in 1..Len(result) :
            NoAtmosphericData(i) =>
                /\ result[i] = daylightFactorFromAltitude(solar[i].alt)
                /\ SameLocalTime(hours[i].time, opts) =>
                     LET plain == computeDaylightBrightnessIndex_simple(
                                      <<hours[i]>>, opts, deviceTz)
                     IN  /\ ~plain.threw
                         /\ plain.solar[1] = solar[i]
                         /\ plain.result[1] = result[i]

\* C14 witness: an overcast midday observation whose cloud cover, rain and
\* code were not passed on; both implementations return its base daylight
C14_Witness ==
    /\ pc = "done"
    /\ callee = "fromArrays"
    /\ ~threw
    /\ Len(arrays.cloudCoverPct) = 0
    /\ hours[1].time.kind = "zulu"
    /\ hours[1].cloudCoverPct = 40
    /\ opts.timesAreUTC
    /\ result[1] > 5500
    /\ result[1] = daylightFactorFromAltitude(solar[1].alt)
    /\ result[1] = computeDaylightBrightnessIndex_simple(<<hours[1]>>, opts, deviceTz).result[1]

\* the Date that the called implementation makes of timestamp t
CoercedBy(name, t, o, devTz) ==
    IF name = "simple"
    THEN coerceDateWithTimezone_simple(t, TzOf(o), o.longitude, ~o.timesAreUTC, devTz)
    ELSE coerceDateWithTimezone_weather(t, TzOf(o), o.longitude, ~o.timesAreUTC, devTz)

\* the UTC offset under which an offset-less string was read: the wall
\* clock written in it minus the instant made of it
AppliedOffset(name, t, o, devTz) == t.t - CoercedBy(name, t, o, devTz).d

\* C16: the offset estimated from the longitude is applied to a timestamp
\* only when the string carries no offset and the caller supplied no
\* timezoneOffsetMinutes; when timezoneOffsetMinutes is supplied, it is the
\* offset applied and the estimate is not used.
C16_LongitudeEstimateOnlyAsFallback ==
    (pc = "done" /\ callee \in {"simple", "weather"}) =>
        \A i \in 1..Len(hours) :
            LET t == hours[i].time
            IN  /\ (t.kind = "naive" /\ opts.timezoneOffsetMinutes # Undefined) =>
                       AppliedOffset(callee, t, opts, deviceTz) = opts.timezoneOffsetMinutes
                /\ hasTz(t) => CoercedBy(callee, t, opts, deviceTz).d = InstantOf(t)

\* the wall clock at the location when observation time t falls: an instant
\* (Z or offset string, epoch number, Date) moved by the location's offset,
\* or the wall clock written in an offset-less local string
LocalWallClock(t, o) ==
    IF t.kind = "naive" THEN t.t ELSE InstantOf(t) + TzOf(o)

\* C18: the day of the year from which the fractional-year angle is computed
\* is the 1-based ordinal of the calendar date at the location (1 for
\* 1 January, 365 or 366 for 31 December), also when that date is not the
\* UTC date of the instant.
C18_DayOfYearOfLocalDate ==
    (pc = "done" /\ callee \in {"weather", "services"} /\ ~threw) =>
        \A i \in 1..Len(hours) :
            LET t == hours[i].time
            IN  (/\ Parses(t)
                 /\ t.kind = "naive" => (callee = "weather" /\ ~opts.timesAreUTC)
                 /\ t.kind # "naive" => (callee = "services" \/ ~opts.timesAreUTC)) =>
                    solar[i].day = OrdinalOfDay(LocalWallClock(t, opts))

---------------------------------------------------------------------------
(* Claims about the curve of weather/services *)

\* the value at breakpoint bp of the band that ends there
WeatherLowerBandAt(bp) ==
    CASE bp = 0 - 90 -> WeatherBandNight(bp)
      [] bp = 0      -> WeatherBandTwilight(bp)
      [] bp = 100    -> WeatherBandLowSun(bp)
      [] bp = 300    -> WeatherBandMidSun(bp)

\* the value at breakpoint bp of the band that starts there
WeatherUpperBandAt(bp) ==
    CASE bp = 0 - 90 -> WeatherBandTwilight(bp)
      [] bp = 0      -> WeatherBandLowSun(bp)
      [] bp = 100    -> WeatherBandMidSun(bp)
      [] bp = 300    -> WeatherBandHighSun(bp)

\* C19: the calibration with night threshold -9 degrees and breakpoints -9,
\* 0, 10 and 30 degrees gives 0 at -18 degrees, never decreases with the
\* altitude, stays in [0, 1], and at each breakpoint both adjoining bands
\* give the value returned.
C19_WeatherCurveShape ==
    pc = "curveDoneWeather" =>
        /\ (altA = 0 - 180 => fA = 0)
        /\ fA <= fB
        /\ fA \in 0..10000
        /\ fB \in 0..10000
        /\ altA \in WeatherBreakpoints =>
             /\ fA = WeatherLowerBandAt(altA)
             /\ WeatherLowerBandAt(altA) = WeatherUpperBandAt(altA)

\* C19 witness: the curve was evaluated at the 10 degree breakpoint (0.35)
\* and one degree above it
C19_Witness ==
    /\ pc = "curveDoneWeather"
    /\ altA = 100
    /\ fA = 3500
    /\ altB = 110
    /\ fB > fA

---------------------------------------------------------------------------
(* Claims about the diagnostics *)

\* C20: tryDiagnostics does not modify the array computeDaylightBrightnessIndex
\* returns and does not make the call throw: an exception raised while
\* diagnosing is caught, and the array returned is the one computed before
\* the diagnostics ran.
C20_DiagnosticsAreSafe ==
    (pc = "done" /\ callee = "weather") =>
        LET computed == MapHours_weather(hours, opts, deviceTz)
        IN  /\ threw = computed.threw
            /\ result = computed.result
            /\ diag.ran => (~threw /\ Len(result) = Len(hours))
            /\ diag.caught => diag.ran

\* C20 witness: the diagnostics raised an exception, it was caught, and the
\* call returned both computed values
C20_Witness ==
    /\ pc = "done"
    /\ callee = "weather"
    /\ diag.ran
    /\ diag.caught
    /\ ~threw
    /\ Len(result) = 2
    /\ result[1] > 0
    /\ result[2] = 0

---------------------------------------------------------------------------
(* findClosestHourIndex and computeBrightness24Window of                   *)
(* weather/services/brightnessIndex.ts                                     *)

\* bestDiff = Infinity: above every distance between two instants of the model
Infinity == 2 * 1000000000

\* Math.abs
MathAbs(x) == IF IsNaN(x) THEN NaN ELSE IF x < 0 THEN 0 - x ELSE x

\* the "local" Date that findClosestHourIndex, computeBrightness24Window and
\* the map callback make of one timestamp
LocalDateOf(t, o, devTz) ==
    LET tzOffset == Coalesce(o.timezoneOffsetMinutes, 0)
        c        == coerceDateWithTimezone_weather(t, tzOffset, o.longitude,
                                                   ~o.timesAreUTC, devTz)
    IN  [threw |-> c.threw,
         d     |-> IF c.threw THEN NaN
                   ELSE IF o.timesAreUTC THEN Plus(c.d, tzOffset) ELSE c.d]

\* the loop of findClosestHourIndex from 1-based position i on; best is the
\* 0-based index held so far
RECURSIVE ClosestFrom(_, _, _, _, _, _, _)
ClosestFrom(i, best, bestDiff, times, o, tg, devTz) ==
    IF i > Len(times) THEN [threw |-> FALSE, idx |-> best]
    ELSE LET local == LocalDateOf(times[i], o, devTz)
             diff  == MathAbs(Plus(local.d, 0 - tg))
         IN  IF local.threw THEN [threw |-> TRUE, idx |-> NaN]
             ELSE IF ~IsNaN(diff) /\ diff < bestDiff
             THEN ClosestFrom(i + 1, i - 1, diff, times, o, tg, devTz)
             ELSE ClosestFrom(i + 1, best, bestDiff, times, o, tg, devTz)

findClosestHourIndex(times, o, now, devTz) ==
    ClosestFrom(1, 0, Infinity, times, o, now, devTz)

\* computeDaylightBrightnessIndexFromArrays of weather/services: times only
computeDaylightBrightnessIndexFromArrays_weather(times, o, devTz, raises) ==
    computeDaylightBrightnessIndex_weather(
        [i \in 1..Len(times) |-> [time |-> times[i]]], o, devTz, raises)

\* arr.slice(start, end) for 0 <= start <= end <= arr.length
Slice(arr, start, end) == [k \in 1..(end - start) |-> arr[start + k]]

\* faulty variant of WindowStart: not held back near the end of the series
WindowStart_uncapped(nowIdx, n) == MathMax(0, nowIdx - 12)

\* start: 12 hours before now, within [0, length - 24]
WindowStart(nowIdx, n) == MathMax(0, MathMin(nowIdx - 12, MathMax(0, n - 24)))

\* end: 24 hours after start, at most the length
WindowEnd(start, n) == MathMin(n, start + 24)

WindowThrown ==
    [threw |-> TRUE, start |-> NaN, end |-> NaN, nowIdx |-> NaN, times24 |-> <<>>,
     brightness24 |-> <<>>, nowLocal |-> NaN, nowAlt |-> NaN, nowBrightness |-> NaN,
     nowBrightnessPercent |-> NaN]

\* lines 84-113 of computeBrightness24Window: the window, given the
\* brightness of every hour (all), the closest hour (near) and the local
\* dates of the series
WindowAround(all, near, localTimes, o) ==
    LET n      == Len(all.result)
        nowIdx == near.idx
        start  == WindowStart(nowIdx, n)
        end    == WindowEnd(start, n)
        tzOffset   == Coalesce(o.timezoneOffsetMinutes, 0)
        nowLocal   == IF nowIdx + 1 <= Len(localTimes) THEN localTimes[nowIdx + 1] ELSE NaN
        nowIdxVal  == IF nowIdx + 1 <= n THEN all.result[nowIdx + 1] ELSE NaN
    IN  IF all.threw \/ near.threw THEN WindowThrown
        ELSE [threw         |-> FALSE,
              start         |-> start,
              end           |-> end,
              nowIdx        |-> nowIdx,
              times24       |-> Slice(localTimes, start, end),
              brightness24  |-> Slice(all.result, start, end),
              nowLocal      |-> nowLocal,
              nowAlt        |-> solarAltitudeDeg_weather(nowLocal, o.latitude, o.longitude,
                                                        tzOffset).alt,
              nowBrightness |-> nowIdxVal,
              nowBrightnessPercent |->
                  IF IsNaN(nowIdxVal) THEN NaN ELSE RoundDiv(nowIdxVal, 100)]

\* computeBrightness24Window(times, opts), with now the value of new Date()
computeBrightness24Window(times, o, now, devTz, raises) ==
    WindowAround(computeDaylightBrightnessIndexFromArrays_weather(times, o, devTz, raises),
                 findClosestHourIndex(times, o, now, devTz),
                 [i \in 1..Len(times) |-> LocalDateOf(times[i], o, devTz).d],
                 o)

\* lengths of the hourly series: shorter than, equal to and longer than 24
SeriesLengths == { 1, 2, 3, 24, 25, 40 }

\* how the series is written: offset-less strings, Z strings, epoch numbers
SeriesKinds == { "naive", "zulu", "epoch" }

\* the first hour of the series, as the wall clock at the location
SeriesStart == Wall(Jun21, 0, 0)

\* 'now' in half hours after the first instant of the series: before it, on
\* the hour, half way between two hours, around hours 12, 24 and 39, after
\* the last
NowSteps == { 0 - 3, 0, 1, 2, 3, 22, 23, 24, 25, 26, 47, 48, 49, 77, 78, 79, 82 }

\* an hourly series of n timestamps.  Offset-less strings carry the wall
\* clock at the location, the other kinds the instant (wall clock minus
\* offset).
Series(kind, n, tz) ==
    [i \in 1..n |->
        Time(kind,
             IF kind = "naive" THEN SeriesStart + 60 * (i - 1)
             ELSE SeriesStart - tz + 60 * (i - 1),
             0)]

WindowInputs ==
    { [fn    |-> "window",
       times |-> Series(k, n, Coalesce(tz, 0)),
       opts  |-> [latitude |-> 5252, longitude |-> 1341,
                  timezoneOffsetMinutes |-> tz, timesAreUTC |-> u],
       now   |-> SeriesStart - Coalesce(tz, 0) + 30 * s] :
         k \in SeriesKinds, n \in SeriesLengths, tz \in TzOffsets, u \in BOOLEAN,
         s \in NowSteps }

InitWindow ==
    /\ hours = <<>>
    /\ opts = CHOOSE o \in OptionSet : TRUE
    /\ deviceTz = 0
    /\ pc = "window"
    /\ callee = "none"
    /\ threw = FALSE
    /\ result = <<>>
    /\ solar = <<>>
    /\ arrays = NoArrays
    /\ altA = 0 /\ altB = 0 /\ fA = 0 /\ fB = 0
    /\ diag = NoDiag
    /\ inp \in WindowInputs
    /\ out = NoProbe
    /\ hook = NoHook /\ net = NoHook /\ trace = NoHook

\* findClosestHourIndex(times, opts, now)
EvalFindClosestHourIndex ==
    /\ pc = "window"
    /\ LET r == findClosestHourIndex(inp.times, inp.opts, inp.now, deviceTz)
       IN  out' = [fn |-> "closest", threw |-> r.threw, idx |-> r.idx]
    /\ pc' = "closestDone"
    /\ UNCHANGED <<batchVars, curveVars, inp, hookVars>>

\* computeBrightness24Window(times, opts) called at instant inp.now
EvalBrightness24Window ==
    /\ pc = "window"
    /\ \E raises \in BOOLEAN :
         out' = [fn |-> "window24",
                 w  |-> computeBrightness24Window(inp.times, inp.opts, inp.now, deviceTz,
                                                  raises)]
    /\ pc' = "windowDone"
    /\ UNCHANGED <<batchVars, curveVars, inp, hookVars>>

NextWindow ==
    \/ EvalFindClosestHourIndex
    \/ EvalBrightness24Window

SpecWindow == InitWindow /\ [][NextWindow]_vars

---------------------------------------------------------------------------
(* Claims about the closest hour and the 24 hour window *)

\* the instant a timestamp of the series stands for: an offset-less string
\* is the wall clock at the location when timesAreUTC is false and the UTC
\* clock when it is true; a Z string or an epoch number is an instant
PhysicalInstant(t, o) ==
    IF t.kind = "naive" /\ ~o.timesAreUTC THEN t.t - TzOf(o) ELSE t.t

\* 0-based indices of the series whose instant is nearest to now
NearestIndices(times, o, now) ==
    { i - 1 : i \in { j \in 1..Len(times) :
        \A k \in 1..Len(times) :
            MathAbs(PhysicalInstant(times[j], o) - now)
                <= MathAbs(PhysicalInstant(times[k], o) - now) } }

\* the lowest of them
LowestNearest(times, o, now) ==
    CHOOSE i \in NearestIndices(times, o, now) :
        \A j \in NearestIndices(times, o, now) : i <= j

\* C21: for a non-empty series findClosestHourIndex returns the lowest index
\* in [0, N-1] whose instant is nearest to now, with timesAreUTC and the
\* offset taken into account: local strings with timesAreUTC = false and UTC
\* instants with timesAreUTC = true pick the same hour.
C21_ClosestHourIsNearestInstant ==
    pc = "closestDone" =>
        /\ ~out.threw
        /\ out.idx \in 0 .. Len(inp.times) - 1
        /\ out.idx = LowestNearest(inp.times, inp.opts, inp.now)

\* C22: for a series of N >= 1 timestamps computeBrightness24Window returns
\* 0 <= start <= nowIdx < end <= N with end - start = min(24, N), and
\* times24 and brightness24 have end - start entries each (24 when N >= 24).
C22_WindowBounds ==
    pc = "windowDone" =>
        LET w == out.w
            N == Len(inp.times)
        IN  /\ ~w.threw
            /\ 0 <= w.start
            /\ w.start <= w.nowIdx
            /\ w.nowIdx < w.end
            /\ w.end <= N
            /\ w.end - w.start = (IF N < 24 THEN N ELSE 24)
            /\ Len(w.times24) = w.end - w.start
            /\ Len(w.brightness24) = w.end - w.start
            /\ \A k \in 1..Len(w.brightness24) : w.brightness24[k] \in 0..10000
            /\ w.nowBrightness = w.brightness24[w.nowIdx - w.start + 1]

\* C22 witness: now is the last of 40 hours; the window is the last 24
C22_Witness ==
    /\ pc = "windowDone"
    /\ Len(inp.times) = 40
    /\ out.w.nowIdx = 39
    /\ out.w.start = 16
    /\ out.w.end = 40
    /\ Len(out.w.brightness24) = 24
    /\ Len(out.w.times24) = 24

---------------------------------------------------------------------------
(* useCache (weather/hooks/useCache.ts) and useWeatherData.  Date.now() is  *)
(* net.clock in whole minutes.  A response of getHourlyWeather is a record  *)
(* [lat, lon, id, kind]: id numbers the request that produced it and kind   *)
(* says which path of fetchWeather the data takes after the await.          *)

\* default and configured time to live, in minutes
ttlMinutes == 5

\* at most MaxRequests requests are sent
MaxRequests == 2

\* the clock stops one minute after an entry written at minute 0 has expired
MaxClock == ttlMinutes + 1

\* JavaScript null
Null == [kind |-> "null"]

Places == { [lat |-> 5252, lon |-> 1341], [lat |-> 4071, lon |-> 0 - 7401] }

\* "ok": valid data with hours of today and valid temperatures;
\* "invalid": time missing or empty; "nodata": getTodayIndices returns [];
\* "badtemp": no valid temperature among the filtered hours
ResponseKinds == {"ok", "invalid", "nodata", "badtemp"}

\* the object literal { lat, lon }: its properties in insertion order
KeyObject(lat, lon) ==
    << [name |-> "lat", value |-> lat], [name |-> "lon", value |-> lon] >>

\* the same coordinates written { lon, lat }
KeyObjectLonLat(lat, lon) ==
    << [name |-> "lon", value |-> lon], [name |-> "lat", value |-> lat] >>

\* position of a property name in the order of Array.prototype.sort
PropertyRank(name) == IF name = "lat" THEN 1 ELSE 2

\* Object.keys(key).sort()
SortedKeys(key) ==
    LET names == { key[i].name : i \in 1..Len(key) }
    IN  [i \in 1..Cardinality(names) |->
            CHOOSE n \in names :
                Cardinality({ m \in names : PropertyRank(m) < PropertyRank(n) }) = i - 1]

\* JSON.stringify(key, Object.keys(key).sort()): the properties in the order
\* of the replacer array
keyToString(key) ==
    LET ks == SortedKeys(key)
    IN  [i \in 1..Len(ks) |-> CHOOSE p \in { key[j] : j \in 1..Len(key) } : p.name = ks[i]]

\* { ...prev } without stringKey, and { ...prev, [stringKey]: entry }
Remove(f, k) == [x \in DOMAIN f \ {k} |-> f[x]]
Put(f, k, v) == [x \in DOMAIN f \cup {k} |-> IF x = k THEN v ELSE f[x]]

isExpired_never(entry, now) == FALSE

\* now - entry.timestamp > ttlMinutes * 60 * 1000
isExpired(entry, now) == now - entry.timestamp > ttlMinutes

\* getCachedData(key): closure is the cache captured by the render that made
\* the callback, prev the state the functional update of setCache receives.
\* entry is what line 29 read (Null if there was none).
getCachedData(closure, prev, key, now) ==
    LET stringKey == keyToString(key)
    IN  IF stringKey \notin DOMAIN closure
        THEN [data |-> Null, cache |-> prev, entry |-> Null]
        ELSE LET entry == closure[stringKey]
             IN  IF isExpired(entry, now)
                 THEN [data |-> Null, cache |-> Remove(prev, stringKey), entry |-> entry]
                 ELSE [data |-> entry.data, cache |-> prev, entry |-> entry]

\* setCachedData(key, data)
setCachedData(prev, key, data, now) ==
    Put(prev, keyToString(key), [data |-> data, timestamp |-> now])

executeWithCache_ignoresForce(closure, prev, key, forceRefresh, now) ==
    getCachedData(closure, prev, key, now)

\* executeWithCache up to its await: data # Null is the stored value it
\* returns, data = Null means requestFunction is invoked
executeWithCache(closure, prev, key, forceRefresh, now) ==
    IF ~forceRefresh
    THEN getCachedData(closure, prev, key, now)
    ELSE [data |-> Null, cache |-> prev, entry |-> Null]

\* createFilteredWeatherData(fullData, filteredIndices)
createFilteredWeatherData(fullData) ==
    [lat |-> fullData.lat, lon |-> fullData.lon, id |-> fullData.id]

\* fetchWeather after the await resolved with fullData.  The brightness of
\* lines 46-58 is computed inside its own try/catch and changes neither the
\* path taken nor loading, so it is left out of the record.
AfterAwait(h, fullData) ==
    LET shown == IF fullData.kind \in {"invalid", "nodata"} THEN Null
                 ELSE IF fullData.kind = "badtemp" THEN h.weatherData
                 ELSE createFilteredWeatherData(fullData)
    IN  [h EXCEPT !.weatherData = shown, !.loading = FALSE]

\* fetchWeather after the await rejected: the alert, then finally
AfterReject(h) == [h EXCEPT !.loading = FALSE]

\* fetchWeather(lat, lon, forceRefresh) up to the await, and past it when
\* executeWithCache returns a stored value
fetchWeather(h, n, lat, lon, forceRefresh) ==
    LET key  == KeyObject(lat, lon)
        look == executeWithCache(h.closure, h.cache, key, forceRefresh, n.clock)
        busy == [h EXCEPT !.loading = TRUE, !.cache = look.cache]
        id   == n.started + 1
        step == [event |-> "fetch", key |-> keyToString(key), forceRefresh |-> forceRefresh,
                 hit |-> look.data # Null, returned |-> look.data, entry |-> look.entry,
                 id |-> IF look.data # Null THEN 0 ELSE id]
    IN  IF look.data # Null
        THEN [hook |-> AfterAwait(busy, look.data), net |-> n, step |-> step]
        ELSE [hook |-> busy,
              net  |-> [n EXCEPT !.started = id,
                                 !.pending = @ \cup {[id |-> id, lat |-> lat, lon |-> lon,
                                                      forceRefresh |-> forceRefresh]}],
              step |-> step]

coordsEqual(coords1, coords2) ==
    IF coords1 = coords2 THEN TRUE
    ELSE IF coords1 = Null \/ coords2 = Null THEN FALSE
    ELSE coords1.lat = coords2.lat /\ coords1.lon = coords2.lon

otherVarsFetch == <<batchVars, curveVars, probeVars, pc>>

InitFetch ==
    /\ hours = <<>>
    /\ opts = CHOOSE o \in OptionSet : TRUE
    /\ deviceTz = 0
    /\ pc = "hook"
    /\ callee = "none"
    /\ threw = FALSE
    /\ result = <<>>
    /\ solar = <<>>
    /\ arrays = NoArrays
    /\ altA = 0 /\ altB = 0 /\ fA = 0 /\ fB = 0
    /\ diag = NoDiag
    /\ inp = NoProbe /\ out = NoProbe
    /\ \E c \in Places \cup {Null} :
         hook = [mounted |-> TRUE, coords |-> c, weatherData |-> Null, loading |-> FALSE,
                 lastCoordsRef |-> Null, cache |-> <<>>, closure |-> <<>>,
                 effectPending |-> TRUE]
    /\ net = [clock |-> 0, pending |-> {}, started |-> 0]
    /\ trace = [step |-> [event |-> "mount"], completed |-> <<>>, allOk |-> TRUE]

\* time passes.  The clock is read only to stamp entries and to compare their
\* age with the time to live, so its first step goes to ttlMinutes and the
\* later ones take a minute each.
Tick ==
    /\ pc = "hook"
    /\ net.clock < MaxClock
    /\ net' = [net EXCEPT !.clock = IF @ < ttlMinutes THEN ttlMinutes ELSE @ + 1]
    /\ trace' = [trace EXCEPT !.step = [event |-> "tick"]]
    /\ UNCHANGED <<hook, otherVarsFetch>>

\* the component renders, with a coords prop or because setCache changed the
\* state: the callbacks of this render capture the cache as it is now
Render ==
    /\ pc = "hook"
    /\ ~hook.effectPending
    /\ \E c \in Places \cup {Null} :
         /\ c # hook.coords \/ hook.closure # hook.cache
         /\ hook' = [hook EXCEPT !.coords = c, !.closure = hook.cache, !.effectPending = TRUE]
    /\ trace' = [trace EXCEPT !.step = [event |-> "render"]]
    /\ UNCHANGED <<net, otherVarsFetch>>

\* the effect of the last render runs
CoordsEffect ==
    /\ pc = "hook"
    /\ hook.effectPending
    /\ LET ran == [hook EXCEPT !.effectPending = FALSE]
       IN  IF coordsEqual(hook.coords, hook.lastCoordsRef)
           THEN /\ hook' = ran
                /\ trace' = [trace EXCEPT !.step = [event |-> "effect"]]
                /\ UNCHANGED net
           ELSE LET moved == [ran EXCEPT !.lastCoordsRef = hook.coords]
                IN  IF hook.coords = Null
                    THEN /\ hook' = moved
                         /\ trace' = [trace EXCEPT !.step = [event |-> "effect"]]
                         /\ UNCHANGED net
                    ELSE /\ net.started < MaxRequests
                         /\ LET r == fetchWeather(moved, net, hook.coords.lat,
                                                  hook.coords.lon, FALSE)
                            IN  /\ hook' = r.hook
                                /\ net' = r.net
                                /\ trace' = [trace EXCEPT !.step = r.step]
    /\ UNCHANGED otherVarsFetch

\* update()
Update ==
    /\ pc = "hook"
    /\ hook.mounted
    /\ IF hook.lastCoordsRef # Null
       THEN /\ net.started < MaxRequests
            /\ LET r == fetchWeather(hook, net, hook.lastCoordsRef.lat,
                                     hook.lastCoordsRef.lon, TRUE)
               IN  /\ hook' = r.hook
                   /\ net' = r.net
                   /\ trace' = [trace EXCEPT !.step = r.step]
       ELSE /\ trace.step.event # "update"
            /\ trace' = [trace EXCEPT !.step = [event |-> "update"]]
            /\ UNCHANGED <<hook, net>>
    /\ UNCHANGED otherVarsFetch

\* the response of a request arrives: setCachedData, then the rest of
\* fetchWeather
Respond ==
    /\ pc = "hook"
    /\ \E call \in net.pending, kind \in ResponseKinds :
         LET data == [lat |-> call.lat, lon |-> call.lon, id |-> call.id, kind |-> kind]
             key  == KeyObject(call.lat, call.lon)
             kept == [hook EXCEPT !.cache = setCachedData(@, key, data, net.clock)]
         IN  /\ hook' = AfterAwait(kept, data)
             /\ net' = [net EXCEPT !.pending = @ \ {call}]
             /\ trace' = [step |-> [event |-> "response", key |-> keyToString(key),
                                    forceRefresh |-> call.forceRefresh, id |-> call.id,
                                    data |-> data],
                          completed |-> Put(trace.completed, keyToString(key),
                                            [data |-> data, timestamp |-> net.clock]),
                          allOk |-> trace.allOk /\ kind = "ok"]
    /\ UNCHANGED otherVarsFetch

\* a request fails (getHourlyWeather throws 'Failed to fetch data')
Reject ==
    /\ pc = "hook"
    /\ \E call \in net.pending :
         /\ hook' = AfterReject(hook)
         /\ net' = [net EXCEPT !.pending = @ \ {call}]
         /\ trace' = [trace EXCEPT !.step = [event |-> "failure", id |-> call.id],
                                   !.allOk = FALSE]
    /\ UNCHANGED otherVarsFetch

NextFetch ==
    \/ Tick
    \/ Render
    \/ CoordsEffect
    \/ Update
    \/ Respond
    \/ Reject

SpecFetch == InitFetch /\ [][NextFetch]_vars

---------------------------------------------------------------------------
(* Claims about the cache and the hook *)

\* the step that led here was a call of fetchWeather
Fetched == trace.step.event = "fetch"

\* the request the last call of fetchWeather sent is awaiting its response
RequestInvoked ==
    \E call \in net.pending :
        /\ call.id = trace.step.id
        /\ keyToString(KeyObject(call.lat, call.lon)) = trace.step.key

\* C23: a call of executeWithCache without forceRefresh never returns a stored
\* value older than ttlMinutes: what it returns from the cache is the data of
\* an entry at most ttlMinutes old, and when the entry it finds is older the
\* lookup returns nothing, the entry is removed from the cache and the
\* request function is invoked.
C23_NoStaleValueReturned ==
    (Fetched /\ ~trace.step.forceRefresh) =>
        /\ trace.step.hit =>
              /\ trace.step.entry # Null
              /\ net.clock - trace.step.entry.timestamp <= ttlMinutes
              /\ trace.step.returned = trace.step.entry.data
              /\ trace.step.id = 0
        /\ (trace.step.entry # Null /\ net.clock - trace.step.entry.timestamp > ttlMinutes) =>
              /\ ~trace.step.hit
              /\ trace.step.key \notin DOMAIN hook.cache
              /\ RequestInvoked

\* an entry older than the time to live was found, removed and refetched
C23_Witness ==
    /\ Fetched /\ ~trace.step.forceRefresh
    /\ trace.step.entry # Null
    /\ net.clock - trace.step.entry.timestamp > ttlMinutes
    /\ trace.step.key \notin DOMAIN hook.cache
    /\ RequestInvoked

\* an entry exactly ttlMinutes old is still returned
C23_AtTheLimit ==
    /\ Fetched /\ trace.step.hit
    /\ net.clock - trace.step.entry.timestamp = ttlMinutes

\* the key of the last call has a completed request whose response is at most
\* ttlMinutes old
CompletedWithinTtl ==
    /\ trace.step.key \in DOMAIN trace.completed
    /\ net.clock - trace.completed[trace.step.key].timestamp <= ttlMinutes

\* C24: once a request for a key has completed successfully, every later call
\* without forceRefresh for the same coordinates (in either property order)
\* within ttlMinutes of that completion returns the stored data and invokes
\* no request.
C24_FreshEntryServedFromCache ==
    /\ \A p \in Places :
          keyToString(KeyObjectLonLat(p.lat, p.lon)) = keyToString(KeyObject(p.lat, p.lon))
    /\ (Fetched /\ ~trace.step.forceRefresh /\ CompletedWithinTtl) =>
          /\ trace.step.hit
          /\ trace.step.returned = trace.completed[trace.step.key].data
          /\ trace.step.id = 0

\* C25: a forced refresh always goes to the network.  update() does nothing
\* only while no coordinates are set; a call with forceRefresh = true returns
\* no stored value and invokes the request even when a fresh entry is cached;
\* and when the response of a forced request arrives the entry of its key is
\* that response with the timestamp of the arrival.
C25_ForcedRefreshGoesToNetwork ==
    /\ trace.step.event = "update" => hook.lastCoordsRef = Null
    /\ (Fetched /\ trace.step.forceRefresh) =>
          /\ ~trace.step.hit
          /\ trace.step.returned = Null
          /\ RequestInvoked
    /\ (trace.step.event = "response" /\ trace.step.forceRefresh) =>
          /\ trace.step.key \in DOMAIN hook.cache
          /\ hook.cache[trace.step.key] = [data |-> trace.step.data, timestamp |-> net.clock]

\* update() sent a request although an entry younger than ttlMinutes is cached
C25_Witness ==
    /\ Fetched /\ trace.step.forceRefresh
    /\ trace.step.key \in DOMAIN hook.cache
    /\ trace.step.key \in DOMAIN hook.closure
    /\ net.clock - hook.cache[trace.step.key].timestamp <= ttlMinutes
    /\ RequestInvoked

\* the response of a forced request replaced an older entry of its key
C25_Replaced ==
    /\ trace.step.event = "response" /\ trace.step.forceRefresh
    /\ hook.cache[trace.step.key].data.id = trace.step.id
    /\ trace.step.key \in DOMAIN hook.closure
    /\ hook.closure[trace.step.key].data.id < trace.step.id
    /\ hook.closure[trace.step.key].timestamp < net.clock

\* C26: when fetchWeather was called for one place and then for another
\* before the first response, then once no request is in flight and every
\* response was valid, weatherData is the data of the place requested last,
\* in whichever order the responses arrived.
C26_LastRequestedPlaceShown ==
    (/\ net.pending = {}
     /\ net.started >= 2
     /\ trace.allOk
     /\ hook.lastCoordsRef # Null) =>
        /\ hook.weatherData # Null
        /\ hook.weatherData.lat = hook.lastCoordsRef.lat
        /\ hook.weatherData.lon = hook.lastCoordsRef.lon

\* C27: loading is true exactly while at least one call of fetchWeather is
\* awaiting its response, whether calls overlap or end by an error or by the
\* 'No data' return.
C27_LoadingWhileInFlight ==
    hook.mounted => (hook.loading <=> net.pending # {})

---------------------------------------------------------------------------
(* getTodayIndices (weather/timeUtils.ts).  A time string 'YYYY-MM-DDTHH:00' *)
(* is the sequence <<date, hour>>, its date the day number and its hour the  *)
(* hour of the day; the empty string is <<>>.  Date.now() and the offset are *)
(* in minutes.                                                               *)

\* s.startsWith(prefix)
StartsWith(s, prefix) == Len(s) >= Len(prefix) /\ SubSeq(s, 1, Len(prefix)) = prefix

\* the string Open-Meteo writes for the local minute m
IsoLocal(m) == << DayOf(m), (m % MinutesPerDay) \div 60 >>

getTodayInLocalTime_unshifted(now, utcOffset) == << DayOf(now) >>

\* getTodayInLocalTime(utcOffsetSeconds) called at instant now:
\* nowShifted.toISOString().split('T')[0]
getTodayInLocalTime(now, utcOffset) == << DayOf(now + utcOffset) >>

\* getTodayIndices(weatherData) called at instant now; hasTime = FALSE is a
\* response without a time array; the indices are 0-based
getTodayIndices(weatherData, now) ==
    IF ~weatherData.hasTime \/ weatherData.time = <<>> THEN <<>>
    ELSE LET time     == weatherData.time
             tzOffset == OrZero(weatherData.utc_offset_seconds)   \* utc_offset_seconds || 0
             today    == getTodayInLocalTime(now, tzOffset)
             pairs    == [i \in 1..Len(time) |-> [time |-> time[i], index |-> i - 1]]
             OnToday(p) == p.time # <<>> /\ StartsWith(p.time, today)
             kept     == SelectSeq(pairs, OnToday)
             filteredIndices == [i \in 1..Len(kept) |-> kept[i].index]
         IN  IF Len(filteredIndices) = 0 /\ Len(time) >= 24
             THEN [i \in 1..24 |-> i - 1]
             ELSE filteredIndices

TodayLengths == {1, 23, 24, 25, 48}
TodayStartHours == {0, 12}
TodayOffsets == { Undefined, 0, 120, 0 - 300 }
TodayNows == { Wall(Jun21, 0, 0) + 60 * h : h \in {0 - 30, 0 - 1, 1, 6, 13, 23, 25, 47, 60, 80} }

\* hourly strings from Jun 21 at the given hour; with gap, the second one is
\* the empty string
TodaySeries(startHour, n, gap) ==
    [i \in 1..n |-> IF gap /\ i = 2 THEN <<>>
                    ELSE IsoLocal(Wall(Jun21, startHour, 0) + 60 * (i - 1))]

TodayInputs ==
    { [fn |-> "today", now |-> t,
       weatherData |-> [hasTime |-> TRUE, time |-> TodaySeries(h, n, g),
                        utc_offset_seconds |-> z]] :
        h \in TodayStartHours, n \in TodayLengths, g \in BOOLEAN, z \in TodayOffsets,
        t \in TodayNows }
    \cup
    { [fn |-> "today", now |-> t,
       weatherData |-> [hasTime |-> b, time |-> <<>>, utc_offset_seconds |-> z]] :
        b \in BOOLEAN, z \in TodayOffsets, t \in TodayNows }

InitToday ==
    /\ hours = <<>>
    /\ opts = CHOOSE o \in OptionSet : TRUE
    /\ deviceTz = 0
    /\ pc = "today"
    /\ callee = "none"
    /\ threw = FALSE
    /\ result = <<>>
    /\ solar = <<>>
    /\ arrays = NoArrays
    /\ altA = 0 /\ altB = 0 /\ fA = 0 /\ fB = 0
    /\ diag = NoDiag
    /\ inp \in TodayInputs
    /\ out = NoProbe
    /\ hook = NoHook /\ net = NoHook /\ trace = NoHook

\* getTodayIndices(weatherData)
EvalTodayIndices ==
    /\ pc = "today"
    /\ out' = [fn |-> "today",
               indices |-> getTodayIndices(inp.weatherData, inp.now)]
    /\ pc' = "todayDone"
    /\ UNCHANGED <<batchVars, curveVars, inp, hookVars>>

NextToday == EvalTodayIndices

SpecToday == InitToday /\ [][NextToday]_vars

---------------------------------------------------------------------------
(* Claim about the hours of today *)

\* number of entries of the series (0 when there is none)
TodayN == Len(inp.weatherData.time)

\* the day number at the location: the instant shifted by the offset (a
\* missing offset is no shift)
DateAtLocation == DayOf(inp.now + Coalesce(inp.weatherData.utc_offset_seconds, 0))

\* 0-based indices of the entries written for that date
EntriesOfToday ==
    { i \in 0..(TodayN - 1) :
        /\ Len(inp.weatherData.time[i + 1]) >= 1
        /\ inp.weatherData.time[i + 1][1] = DateAtLocation }

\* C28: getTodayIndices returns strictly increasing indices within the
\* series, exactly those of the entries whose time string starts with today's
\* date at the location (now shifted by utc_offset_seconds); when no entry
\* matches it returns 0..23 if the series has at least 24 entries and the
\* empty list otherwise.
C28_TodayIndices ==
    out.fn = "today" =>
        LET r == out.indices
        IN  /\ \A i \in 1..Len(r) : r[i] \in 0..(TodayN - 1)
            /\ \A i \in 1..(Len(r) - 1) : r[i] < r[i + 1]
            /\ EntriesOfToday # {} =>
                  { r[i] : i \in 1..Len(r) } = EntriesOfToday
            /\ (EntriesOfToday = {} /\ TodayN >= 24) => r = [i \in 1..24 |-> i - 1]
            /\ (EntriesOfToday = {} /\ TodayN < 24) => r = <<>>

\* today's hours lie inside the series, after hours of the day before, and
\* the offset moves the date
C28_Witness ==
    /\ out.fn = "today"
    /\ Len(out.indices) = 24
    /\ out.indices[1] = 12
    /\ DateAtLocation # DayOf(inp.now)

\* no entry of today in a series of at least 24 entries: the first 24 hours
C28_Fallback ==
    /\ out.fn = "today"
    /\ EntriesOfToday = {}
    /\ TodayN = 48
    /\ Len(out.indices) = 24

====
